---- MODULE Spec2Model ----
(***************************************************************************)
(* Model of programs of the repository:                                    *)
(*   - the memoizing Cacher<T>, the Counter iterator and shoes_in_my_size  *)
(*     of functional_language_features.rs;                                 *)
(*   - the Arc<Mutex<i32>> counter program, the two join programs and the  *)
(*     two-producer channel program of fearless_concurrency.rs;            *)
(*   - the blog Post of object_oriented_features.rs;                       *)
(*   - LimitTracker of smart_pointers.rs, Guess of testing.rs and          *)
(*     split_at_mut of advanced_features.rs.                               *)
(* Each program has its own specification (SpecCacher, SpecCounter, ...);  *)
(* the variables of the other programs stay at their initial values.       *)
(***************************************************************************)
EXTENDS Naturals, Integers, Sequences, FiniteSets, TLC

VARIABLES
    cacher,         \* the Cacher struct: [calculation, value]
    invocations,    \* invocations[a]: how often the closure ran with argument a
    log,            \* the calls of Cacher::value made so far, in order
    counter,        \* the i32 inside the Mutex
    lockHolder,     \* the thread holding the MutexGuard, or NoThread
    handles,        \* the Vec of JoinHandles of main
    loopVar,        \* the next value of the spawning for loop
    pcMain,         \* position of main
    pcThread,       \* position of each spawned closure
    result,         \* the number main printed, or NotPrinted
    post,           \* the blog Post: [state, content]
    postHist,       \* the operations called on the post, in order
    tracker,        \* the LimitTracker: [value, max]
    sent_messages,  \* MockMessenger.sent_messages
    setCalls,       \* the values passed to set_value so far, in order
    guessCall,      \* the last call of Guess::new: its argument and outcome
    iterCounters,   \* the Counter iterators: [count]
    nextLog,        \* what next() returned, per iterator
    shoesIn,        \* the arguments of shoes_in_my_size
    shoesOut,       \* its result, once it has run
    splitIn,        \* the arguments of split_at_mut
    splitOut,       \* its outcome, once it has run
    joinAt,         \* where main calls handle.join(): before or after its loop
    pcJoinMain,     \* position of main in the join program
    pcSpawned,      \* position of the spawned closure
    iJoinMain,      \* loop variable of main in the join program
    iSpawned,       \* loop variable of the spawned closure
    output,         \* the lines printed so far, in order
    chan,           \* the messages in the mpsc channel
    pcProducer,     \* position of each producer closure
    pcReceiver,     \* position of main in the channel program
    received        \* the messages main has printed

vars == <<cacher, invocations, log,
          counter, lockHolder, handles, loopVar, pcMain, pcThread, result,
          post, postHist,
          tracker, sent_messages, setCalls,
          guessCall,
          iterCounters, nextLog,
          shoesIn, shoesOut,
          splitIn, splitOut,
          joinAt, pcJoinMain, pcSpawned, iJoinMain, iSpawned, output,
          chan, pcProducer, pcReceiver, received>>

cacherVars == <<cacher, invocations, log>>
counterVars == <<counter, lockHolder, handles, loopVar, pcMain, pcThread, result>>
postVars == <<post, postHist>>
trackerVars == <<tracker, sent_messages, setCalls>>
guessVars == <<guessCall>>
iterVars == <<iterCounters, nextLog>>
shoeVars == <<shoesIn, shoesOut>>
splitVars == <<splitIn, splitOut>>
joinVars == <<joinAt, pcJoinMain, pcSpawned, iJoinMain, iSpawned, output>>
mpscVars == <<chan, pcProducer, pcReceiver, received>>

\* what the actions of one program leave unchanged: the other programs
notCacherVars == <<counterVars, postVars, trackerVars, guessVars, iterVars,
    shoeVars, splitVars, joinVars, mpscVars>>
notCounterVars == <<cacherVars, postVars, trackerVars, guessVars, iterVars,
    shoeVars, splitVars, joinVars, mpscVars>>
notPostVars == <<cacherVars, counterVars, trackerVars, guessVars, iterVars,
    shoeVars, splitVars, joinVars, mpscVars>>
notTrackerVars == <<cacherVars, counterVars, postVars, guessVars, iterVars,
    shoeVars, splitVars, joinVars, mpscVars>>
notGuessVars == <<cacherVars, counterVars, postVars, trackerVars, iterVars,
    shoeVars, splitVars, joinVars, mpscVars>>
notIterVars == <<cacherVars, counterVars, postVars, trackerVars, guessVars,
    shoeVars, splitVars, joinVars, mpscVars>>
notShoeVars == <<cacherVars, counterVars, postVars, trackerVars, guessVars,
    iterVars, splitVars, joinVars, mpscVars>>
notSplitVars == <<cacherVars, counterVars, postVars, trackerVars, guessVars,
    iterVars, shoeVars, joinVars, mpscVars>>
notJoinVars == <<cacherVars, counterVars, postVars, trackerVars, guessVars,
    iterVars, shoeVars, splitVars, mpscVars>>
notMpscVars == <<cacherVars, counterVars, postVars, trackerVars, guessVars,
    iterVars, shoeVars, splitVars, joinVars>>

----------------------------------------------------------------------------
(* Bounds of the Cacher model *)

\* the u32 arguments and results of the closure are 1..MaxArg
MaxArg == 2
\* number of Cacher::value calls in one behaviour
MaxCalls == 4
\* number of distinct callers (call sites) of Cacher::value
NCallers == 2

Args == 1..MaxArg
Vals == 1..MaxArg
Callers == 1..NCallers

\* Option<u32>: None is the empty sequence, Some(v) the sequence of v
None == <<>>
Some(v) == <<v>>
Unwrap(o) == o[1]

\* T: Fn(u32) -> u32, any pure closure over the bounded domain
Calculations == [Args -> Vals]

\* the closure |a| a of the test call_with_different_values
Identity == [a \in Args |-> a]

\* Cacher::new: the closure and no value yet
CacherNew(calculation) == [calculation |-> calculation, value |-> None]

\* Cacher::value without the match on self.value: the closure runs on every call
CacherValueAlwaysComputes(self, arg) ==
    LET v == self.calculation[arg]
    IN [self |-> [self EXCEPT !.value = Some(v)], ret |-> v, called |-> TRUE]

\* Cacher::value: the cached value if there is one, else run the closure and
\* store its result.  `called` records whether the closure was run.
CacherValue(self, arg) ==
    IF self.value /= None
    THEN [self |-> self, ret |-> Unwrap(self.value), called |-> FALSE]
    ELSE LET v == self.calculation[arg]
         IN [self |-> [self EXCEPT !.value = Some(v)], ret |-> v, called |-> TRUE]

----------------------------------------------------------------------------
(* The counter program *)

\* for _ in 1..10
LoopStart == 1
LoopEnd == 10

Threads == LoopStart..(LoopEnd - 1)
NoThread == 0
NotPrinted == -1

----------------------------------------------------------------------------
(* The blog Post *)

\* number of operations called on one post
MaxPostOps == 4
\* the texts passed to add_text have at most MaxTextLen characters
MaxTextLen == 1

TextChars == {"a", "b"}

\* &str arguments of add_text, as sequences of characters
Texts == UNION {[1..n -> TextChars] : n \in 0..MaxTextLen}

\* Post::new: a Draft with empty content
PostNew == [state |-> Some("Draft"), content |-> <<>>]

\* Post::add_text: self.content.push_str(text)
PostAddText(self, text) == [self EXCEPT !.content = @ \o text]

\* request_review of Draft, PendingReview and Published
StateRequestReview(s) ==
    CASE s = "Draft" -> "PendingReview"
      [] s = "PendingReview" -> s
      [] s = "Published" -> s

\* approve that publishes a Draft without a review
StateApproveSkipsReview(s) ==
    CASE s = "Draft" -> "Published"
      [] s = "PendingReview" -> "Published"
      [] s = "Published" -> s

\* approve of Draft, PendingReview and Published
StateApprove(s) ==
    CASE s = "Draft" -> s
      [] s = "PendingReview" -> "Published"
      [] s = "Published" -> s

\* content that every state overrides like Published
StateContentAlwaysShown(s, p) == p.content

\* State::content: the default "" unless Published overrides it
StateContent(s, p) == IF s = "Published" THEN p.content ELSE <<>>

\* Post::content
PostContent(self) == StateContent(Unwrap(self.state), self)

\* Post::request_review: take the state and store its successor
PostRequestReview(self) ==
    IF self.state /= None
    THEN [self EXCEPT !.state = Some(StateRequestReview(Unwrap(self.state)))]
    ELSE self

\* Post::approve
PostApprove(self) ==
    IF self.state /= None
    THEN [self EXCEPT !.state = Some(StateApprove(Unwrap(self.state)))]
    ELSE self

----------------------------------------------------------------------------
(* Initial states *)

CounterInit ==
    /\ counter = 0
    /\ lockHolder = NoThread
    /\ handles = <<>>
    /\ loopVar = LoopStart
    /\ pcMain = "spawn"
    /\ pcThread = [t \in Threads |-> "unspawned"]
    /\ result = NotPrinted

CacherInit ==
    /\ cacher \in {CacherNew(f) : f \in Calculations}
    /\ invocations = [a \in Args |-> 0]
    /\ log = <<>>

\* the Cacher when another program runs
CacherIdle ==
    /\ cacher = CacherNew(Identity)
    /\ invocations = [a \in Args |-> 0]
    /\ log = <<>>

\* let mut post = Post::new();
PostInit ==
    /\ post = PostNew
    /\ postHist = <<>>

\* the variables of every program but p, at their initial values
Idle(p) ==
    /\ IF p = "cacher" THEN TRUE ELSE CacherIdle
    /\ IF p = "counter" THEN TRUE ELSE CounterInit
    /\ IF p = "post" THEN TRUE ELSE PostInit
    /\ IF p = "tracker" THEN TRUE ELSE tracker = <<>> /\ sent_messages = <<>> /\ setCalls = <<>>
    /\ IF p = "guess" THEN TRUE ELSE guessCall = <<>>
    /\ IF p = "iter" THEN TRUE ELSE iterCounters = <<>> /\ nextLog = <<>>
    /\ IF p = "shoe" THEN TRUE ELSE shoesIn = <<>> /\ shoesOut = <<>>
    /\ IF p = "split" THEN TRUE ELSE splitIn = <<>> /\ splitOut = <<>>
    /\ IF p = "join" THEN TRUE
       ELSE /\ joinAt = "" /\ pcJoinMain = "" /\ pcSpawned = ""
            /\ iJoinMain = 0 /\ iSpawned = 0 /\ output = <<>>
    /\ IF p = "mpsc" THEN TRUE
       ELSE chan = <<>> /\ pcProducer = <<>> /\ pcReceiver = "" /\ received = <<>>

\* the Cacher program: a fresh Cacher around some closure
InitCacher == CacherInit /\ Idle("cacher")

\* the counter program
InitCounter == CounterInit /\ Idle("counter")

----------------------------------------------------------------------------
(* Actions of the Cacher program *)

\* one call c.value(arg) by a caller; &mut self makes the call exclusive
Value(caller, arg) ==
    /\ Len(log) < MaxCalls
    /\ LET r == CacherValue(cacher, arg)
       IN /\ cacher' = r.self
          /\ invocations' = IF r.called
                            THEN [invocations EXCEPT ![arg] = @ + 1]
                            ELSE invocations
          /\ log' = Append(log, [caller |-> caller, arg |-> arg,
                                 ret |-> r.ret, called |-> r.called])
    /\ UNCHANGED notCacherVars

NextCacher == \E caller \in Callers, arg \in Args : Value(caller, arg)

SpecCacher == InitCacher /\ [][NextCacher]_vars

----------------------------------------------------------------------------
(* Actions of the counter program *)

\* one iteration of `for _ in 1..10`: clone the Arc and spawn the closure;
\* the JoinHandle is bound to `handle` and dropped, handles is not pushed to
MainSpawn ==
    /\ pcMain = "spawn"
    /\ loopVar < LoopEnd
    /\ pcThread' = [pcThread EXCEPT ![loopVar] = "lock"]
    /\ loopVar' = loopVar + 1
    /\ UNCHANGED <<counter, lockHolder, handles, pcMain, result>>
    /\ UNCHANGED notCounterVars

\* the range is exhausted
MainSpawnDone ==
    /\ pcMain = "spawn"
    /\ loopVar >= LoopEnd
    /\ pcMain' = "join"
    /\ UNCHANGED <<counter, lockHolder, handles, loopVar, pcThread, result>>
    /\ UNCHANGED notCounterVars

\* for handle in handles { handle.join().unwrap(); }
MainJoin ==
    /\ pcMain = "join"
    /\ IF handles = <<>>
       THEN /\ pcMain' = "print"
            /\ UNCHANGED handles
       ELSE /\ pcThread[Head(handles)] = "done"
            /\ handles' = Tail(handles)
            /\ UNCHANGED pcMain
    /\ UNCHANGED <<counter, lockHolder, loopVar, pcThread, result>>
    /\ UNCHANGED notCounterVars

\* println!("Result: {}", *counter.lock().unwrap());
\* the temporary guard is taken and released within the statement
MainPrint ==
    /\ pcMain = "print"
    /\ lockHolder = NoThread
    /\ result' = counter
    /\ pcMain' = "done"
    /\ UNCHANGED <<counter, lockHolder, handles, loopVar, pcThread>>
    /\ UNCHANGED notCounterVars

\* let mut num = counter.lock().unwrap();
ThreadLock(t) ==
    /\ pcThread[t] = "lock"
    /\ lockHolder = NoThread
    /\ lockHolder' = t
    /\ pcThread' = [pcThread EXCEPT ![t] = "incr"]
    /\ UNCHANGED <<counter, handles, loopVar, pcMain, result>>
    /\ UNCHANGED notCounterVars

\* *num += 1;
ThreadIncr(t) ==
    /\ pcThread[t] = "incr"
    /\ lockHolder = t
    /\ counter' = counter + 1
    /\ pcThread' = [pcThread EXCEPT ![t] = "unlock"]
    /\ UNCHANGED <<lockHolder, handles, loopVar, pcMain, result>>
    /\ UNCHANGED notCounterVars

\* end of the closure: num goes out of scope and the lock is released
ThreadUnlock(t) ==
    /\ pcThread[t] = "unlock"
    /\ lockHolder = t
    /\ lockHolder' = NoThread
    /\ pcThread' = [pcThread EXCEPT ![t] = "done"]
    /\ UNCHANGED <<counter, handles, loopVar, pcMain, result>>
    /\ UNCHANGED notCounterVars

NextCounter ==
    \/ MainSpawn
    \/ MainSpawnDone
    \/ MainJoin
    \/ MainPrint
    \/ \E t \in Threads : ThreadLock(t)
    \/ \E t \in Threads : ThreadIncr(t)
    \/ \E t \in Threads : ThreadUnlock(t)

SpecCounter == InitCounter /\ [][NextCounter]_vars

----------------------------------------------------------------------------
(* Helpers for the properties *)

RECURSIVE SumUpTo(_, _)
SumUpTo(f, n) == IF n = 0 THEN 0 ELSE f[n] + SumUpTo(f, n - 1)

\* how often the closure has run, over all arguments
TotalInvocations == SumUpTo(invocations, MaxArg)

Calls == 1..Len(log)

\* the calls made so far that passed argument k
CallsFor(k) == {i \in Calls : log[i].arg = k}

\* callers that have made a call so far
CallersSeen == {log[i].caller : i \in Calls}

\* at least one call was made and every call so far passed argument k
OnlyKeyRequested(k) == Calls /= {} /\ \A i \in Calls : log[i].arg = k

----------------------------------------------------------------------------
(* Properties of the Cacher *)

\* C1: once a call for key k has returned a value v, every later call for k
\* returns v and does not run the closure.
C1_Consistency ==
    \A i, j \in Calls :
        (i < j /\ log[i].arg = log[j].arg)
            => (log[j].ret = log[i].ret /\ ~log[j].called)

\* two callers have asked for the same key, one after the other
C1_Witness ==
    \E i, j \in Calls :
        /\ i < j
        /\ log[i].arg = log[j].arg
        /\ log[i].caller /= log[j].caller

\* C2: for every key the closure is run at most once however many requests
\* are made, it has run exactly once when a value is stored and not at all
\* before, and a stored result is the one its single run produced.
C2_AtMostOnce ==
    /\ \A k \in Args :
          /\ invocations[k] <= 1
          /\ invocations[k] = 1 => cacher.value = Some(cacher.calculation[k])
          /\ invocations[k] = Cardinality({i \in CallsFor(k) : log[i].called})
    /\ TotalInvocations = IF cacher.value = None THEN 0 ELSE 1

\* a key was requested by every caller and more than twice, and computed once
C2_Witness ==
    \E k \in Args :
        /\ invocations[k] = 1
        /\ Cardinality(CallsFor(k)) >= 3
        /\ {log[i].caller : i \in CallsFor(k)} = Callers

\* C3: every call of value(arg) returns the closure's result for the
\* argument it was passed, also after a call with another argument.
C3_ReturnsResultForArgument ==
    \A i \in Calls : log[i].ret = cacher.calculation[log[i].arg]

\* C4: a stored value (Some(v)) stays stored and is never replaced.
C4_ReadyIsStable ==
    [][cacher.value /= None => cacher'.value = cacher.value]_vars

\* a value is stored and a later call passed an argument whose result differs
C4_Witness ==
    /\ cacher.value /= None
    /\ \E j \in Calls :
          /\ j > 1
          /\ cacher.calculation[log[j].arg] /= Unwrap(cacher.value)

\* C5: when all the callers request the same key of a fresh Cacher, in any
\* order, every call returns the closure's result for that key and the
\* closure has run exactly once.
C5_SameKeyCallers ==
    \A k \in Args :
        OnlyKeyRequested(k) =>
            /\ \A i \in Calls : log[i].ret = cacher.calculation[k]
            /\ invocations[k] = 1
            /\ TotalInvocations = 1

\* every caller has requested the same key and nothing else was requested
C5_Witness ==
    \E k \in Args :
        /\ OnlyKeyRequested(k)
        /\ CallersSeen = Callers
        /\ Len(log) = MaxCalls

----------------------------------------------------------------------------
(* Properties of the counter program *)

\* C10: when main has printed, the number printed is 10.
C10_ResultIsTen == pcMain = "done" => result = 10

----------------------------------------------------------------------------
(* Actions of the blog program *)

\* post.add_text(text)
AddText(text) ==
    /\ Len(postHist) < MaxPostOps
    /\ post' = PostAddText(post, text)
    /\ postHist' = Append(postHist, [op |-> "add_text", text |-> text])
    /\ UNCHANGED notPostVars

\* post.request_review()
RequestReview ==
    /\ Len(postHist) < MaxPostOps
    /\ post' = PostRequestReview(post)
    /\ postHist' = Append(postHist, [op |-> "request_review", text |-> <<>>])
    /\ UNCHANGED notPostVars

\* post.approve()
Approve ==
    /\ Len(postHist) < MaxPostOps
    /\ post' = PostApprove(post)
    /\ postHist' = Append(postHist, [op |-> "approve", text |-> <<>>])
    /\ UNCHANGED notPostVars

NextPost ==
    \/ \E text \in Texts : AddText(text)
    \/ RequestReview
    \/ Approve

InitPost == PostInit /\ Idle("post")

SpecPost == InitPost /\ [][NextPost]_vars

\* the texts passed to add_text so far, concatenated in call order
RECURSIVE AddedText(_)
AddedText(h) ==
    IF h = <<>> THEN <<>>
    ELSE (IF Head(h).op = "add_text" THEN Head(h).text ELSE <<>>) \o AddedText(Tail(h))

\* C11: content() is empty while the post is a Draft or in PendingReview,
\* whatever text was added, and is all the added text once it is Published.
C11_ContentOnlyWhenPublished ==
    LET s == Unwrap(post.state)
    IN /\ s \in {"Draft", "PendingReview"} => PostContent(post) = <<>>
       /\ s = "Published" => PostContent(post) = AddedText(postHist)
       /\ s \in {"Draft", "PendingReview", "Published"}

\* a published post with text added before the review and after the approval
C11_Witness ==
    /\ Unwrap(post.state) = "Published"
    /\ Len(postHist) = 4
    /\ postHist[1].op = "add_text" /\ postHist[1].text /= <<>>
    /\ postHist[4].op = "add_text" /\ postHist[4].text /= postHist[1].text
    /\ postHist[4].text /= <<>>

\* C12: approve keeps a Draft, request_review moves Draft to PendingReview and
\* keeps PendingReview, approve moves PendingReview to Published, Published
\* is kept by both; so a Published post has had a request_review and a later
\* approve.
C12_Transitions ==
    /\ [][Len(postHist') > Len(postHist) =>
            LET op == postHist'[Len(postHist')].op
                s == Unwrap(post.state)
                t == Unwrap(post'.state)
            IN /\ (op = "approve" /\ s = "Draft") => t = "Draft"
               /\ (op = "request_review" /\ s = "Draft") => t = "PendingReview"
               /\ (op = "request_review" /\ s = "PendingReview") => t = "PendingReview"
               /\ (op = "approve" /\ s = "PendingReview") => t = "Published"
               /\ s = "Published" => t = "Published"
               /\ op = "add_text" => t = s]_vars
    /\ [](Unwrap(post.state) = "Published" =>
            \E i, j \in 1..Len(postHist) :
                /\ i < j
                /\ postHist[i].op = "request_review"
                /\ postHist[j].op = "approve")

\* a Draft was approved (and stayed a Draft), then reviewed, approved and
\* reviewed again
C12_Witness ==
    /\ Len(postHist) = 4
    /\ postHist[1].op = "approve"
    /\ postHist[2].op = "request_review"
    /\ postHist[3].op = "approve"
    /\ postHist[4].op = "request_review"
    /\ Unwrap(post.state) = "Published"

----------------------------------------------------------------------------
(* LimitTracker and its mock messenger *)

\* the quotas (max) are 0..MaxQuota, the values set are 0..MaxQuota + 1
MaxQuota == 10
\* number of set_value calls on one tracker
MaxSets == 2

MsgError == "Error: You are over your quota!"
MsgUrgent == "Urgent warning: You've used up over 90% of your quota!"
MsgWarning == "Warning: You've used up over 75% of your quota!"

\* LimitTracker::new
LimitTrackerNew(max) == [value |-> 0, max |-> max]

\* self.value as f64 / self.max as f64: a quotient of two small integers,
\* +inf for n/0 with n > 0 and NaN for 0/0
Percentage(value, max) ==
    IF max /= 0 THEN [kind |-> "finite", num |-> value, den |-> max]
    ELSE IF value /= 0 THEN [kind |-> "inf", num |-> value, den |-> max]
    ELSE [kind |-> "nan", num |-> value, den |-> max]

\* f64 comparison p >= num/den: false for NaN, true for +inf
AtLeast(p, num, den) ==
    CASE p.kind = "nan" -> FALSE
      [] p.kind = "inf" -> TRUE
      [] p.kind = "finite" -> p.num * den >= num * p.den

\* MockMessenger::send
MessengerSend(messages, msg) == Append(messages, msg)

\* set_value with three independent ifs instead of the else-if chain
LimitTrackerSetValueNoElse(self, messages, value) ==
    LET p == Percentage(value, self.max)
        m1 == IF AtLeast(p, 1, 1) THEN MessengerSend(messages, MsgError) ELSE messages
        m2 == IF AtLeast(p, 9, 10) THEN MessengerSend(m1, MsgUrgent) ELSE m1
        m3 == IF AtLeast(p, 3, 4) THEN MessengerSend(m2, MsgWarning) ELSE m2
    IN [self |-> [self EXCEPT !.value = value], messages |-> m3]

\* LimitTracker::set_value: store the value, then send for the first
\* threshold of 1.0, 0.9, 0.75 that the percentage reaches
LimitTrackerSetValue(self, messages, value) ==
    LET p == Percentage(value, self.max)
    IN [self |-> [self EXCEPT !.value = value],
        messages |->
            IF AtLeast(p, 1, 1) THEN MessengerSend(messages, MsgError)
            ELSE IF AtLeast(p, 9, 10) THEN MessengerSend(messages, MsgUrgent)
            ELSE IF AtLeast(p, 3, 4) THEN MessengerSend(messages, MsgWarning)
            ELSE messages]

\* a fresh mock messenger and a tracker with some quota
TrackerInit ==
    /\ tracker \in {LimitTrackerNew(max) : max \in 0..MaxQuota}
    /\ sent_messages = <<>>
    /\ setCalls = <<>>

InitTracker == TrackerInit /\ Idle("tracker")

\* limit_tracker.set_value(value)
SetValue(value) ==
    /\ Len(setCalls) < MaxSets
    /\ LET r == LimitTrackerSetValue(tracker, sent_messages, value)
       IN /\ tracker' = r.self
          /\ sent_messages' = r.messages
    /\ setCalls' = Append(setCalls, value)
    /\ UNCHANGED notTrackerVars

NextTracker == \E value \in 0..(MaxQuota + 1) : SetValue(value)

SpecTracker == InitTracker /\ [][NextTracker]_vars

\* C13: a call set_value(v) sends at most one message: the error when
\* v/max >= 1.0, else the urgent warning when v/max >= 0.9, else the warning
\* when v/max >= 0.75, else nothing (for max = 0 the quotient is +inf for
\* v > 0 and compares false for v = 0).
C13_OneMessageByThreshold ==
    [][Len(setCalls') > Len(setCalls) =>
        LET v == setCalls'[Len(setCalls')]
            max == tracker.max
            new == SubSeq(sent_messages', Len(sent_messages) + 1, Len(sent_messages'))
        IN /\ SubSeq(sent_messages', 1, Len(sent_messages)) = sent_messages
           /\ Len(new) <= 1
           /\ tracker'.value = v
           /\ max > 0 =>
                new = IF 100 * v >= 100 * max THEN <<MsgError>>
                      ELSE IF 100 * v >= 90 * max THEN <<MsgUrgent>>
                      ELSE IF 100 * v >= 75 * max THEN <<MsgWarning>>
                      ELSE <<>>
           /\ max = 0 => new = IF v > 0 THEN <<MsgError>> ELSE <<>>]_vars

\* the first value set on a tracker is at least 75% and below 90% of max and
\* the messenger holds exactly one message, a later value was below 75%
C13_Witness ==
    /\ Len(setCalls) = 2
    /\ tracker.max > 0
    /\ 100 * setCalls[1] >= 75 * tracker.max
    /\ 100 * setCalls[1] < 90 * tracker.max
    /\ 100 * setCalls[2] < 75 * tracker.max
    /\ sent_messages = <<MsgWarning>>

----------------------------------------------------------------------------
(* Guess *)

\* the values tried reach GuessMargin below 1 and above 100
GuessMargin == 3

\* if value < 1 ... else if value > 100
GuessLow == 1
GuessHigh == 100
\* Guess::new(200) of the test greater_than_100
GuessTestValue == 200

GuessInputs == ((GuessLow - GuessMargin)..(GuessHigh + GuessMargin)) \cup {GuessTestValue}

TextTooSmall == "Guess value must be greater than or equal to 1"
TextTooLarge == "Guess value must be less than or equal to 100"

\* a panic message "<text>, got <value>.": its literal text and the value
\* formatted into it
PanicMessage(text, value) == [text |-> text, got |-> value]
NoPanic == [text |-> "", got |-> 0]

\* should_panic(expected = ...): the message contains the expected text
MessageContains(message, expected) == message.text = expected

\* Guess::new with the two panic messages exchanged
GuessNewSwappedMessages(value) ==
    IF value < GuessLow
    THEN [panicked |-> TRUE, message |-> PanicMessage(TextTooLarge, value),
          guess |-> [value |-> 0]]
    ELSE IF value > GuessHigh
    THEN [panicked |-> TRUE, message |-> PanicMessage(TextTooSmall, value),
          guess |-> [value |-> 0]]
    ELSE [panicked |-> FALSE, message |-> NoPanic, guess |-> [value |-> value]]

\* Guess::new: panic below 1 and above 100, else Guess { value };
\* the guess field is meaningful only when the call did not panic
GuessNew(value) ==
    IF value < GuessLow
    THEN [panicked |-> TRUE, message |-> PanicMessage(TextTooSmall, value),
          guess |-> [value |-> 0]]
    ELSE IF value > GuessHigh
    THEN [panicked |-> TRUE, message |-> PanicMessage(TextTooLarge, value),
          guess |-> [value |-> 0]]
    ELSE [panicked |-> FALSE, message |-> NoPanic, guess |-> [value |-> value]]

\* no call of Guess::new yet
GuessInit == guessCall = <<>>

InitGuess == GuessInit /\ Idle("guess")

\* Guess::new(value)
NewGuess(value) ==
    /\ guessCall' = <<[arg |-> value, outcome |-> GuessNew(value)]>>
    /\ UNCHANGED notGuessVars

NextGuess == \E value \in GuessInputs : NewGuess(value)

SpecGuess == InitGuess /\ [][NextGuess]_vars

\* C14: Guess::new(value) panics exactly for value < 1 or value > 100, else
\* returns a Guess holding value (so a Guess holds a value in 1..=100); above
\* 100 the panic message contains "Guess value must be less than or equal to
\* 100".
C14_GuessRange ==
    \A i \in 1..Len(guessCall) :
        LET arg == guessCall[i].arg
            out == guessCall[i].outcome
        IN /\ out.panicked <=> (arg < 1 \/ arg > 100)
           /\ ~out.panicked => (out.guess.value = arg /\ out.guess.value \in 1..100)
           /\ arg > 100 =>
                MessageContains(out.message,
                                "Guess value must be less than or equal to 100")

\* the call of the test: Guess::new(200) has panicked
C14_Witness ==
    /\ guessCall /= <<>>
    /\ guessCall[1].arg = 200
    /\ guessCall[1].outcome.panicked

----------------------------------------------------------------------------
(* The Counter iterator *)

\* number of Counter instances in use
NIterators == 2
\* number of next() calls on one instance
MaxNext == 10

Iterators == 1..NIterators

\* if self.count < 6
IterLimit == 6

\* Counter::new
CounterNew == [count |-> 0]

\* next with the test self.count <= 6
CounterNextInclusive(self) ==
    LET c == self.count + 1
    IN [self |-> [self EXCEPT !.count = c],
        ret |-> IF c <= IterLimit THEN Some(c) ELSE None]

\* Iterator::next for Counter: increment, then Some(count) below 6, else None
CounterNext(self) ==
    LET c == self.count + 1
    IN [self |-> [self EXCEPT !.count = c],
        ret |-> IF c < IterLimit THEN Some(c) ELSE None]

\* let mut counter = Counter::new(); for every instance
IterInit ==
    /\ iterCounters = [i \in Iterators |-> CounterNew]
    /\ nextLog = [i \in Iterators |-> <<>>]

InitIter == IterInit /\ Idle("iter")

\* counter.next() on instance i
IterNext(i) ==
    /\ Len(nextLog[i]) < MaxNext
    /\ LET r == CounterNext(iterCounters[i])
       IN /\ iterCounters' = [iterCounters EXCEPT ![i] = r.self]
          /\ nextLog' = [nextLog EXCEPT ![i] = Append(@, r.ret)]
    /\ UNCHANGED notIterVars

NextIter == \E i \in Iterators : IterNext(i)

SpecIter == InitIter /\ [][NextIter]_vars

\* C15: on a new Counter the k-th call of next returns Some(k) for k = 1..5
\* and the 6th call returns None.
C15_NextSequence ==
    \A i \in Iterators :
        \A k \in 1..Len(nextLog[i]) :
            /\ k \in 1..5 => nextLog[i][k] = Some(k)
            /\ k = 6 => nextLog[i][k] = None

\* next has been called six times on one instance and fewer on another
C15_Witness ==
    \E i, j \in Iterators :
        /\ Len(nextLog[i]) = 6
        /\ Len(nextLog[j]) \in 1..5

----------------------------------------------------------------------------
(* shoes_in_my_size *)

\* length of the Vec<Shoe> passed in
MaxShoes == 3

\* the sizes and styles of the test filters_by_size
ShoeSizes == {10, 13}
ShoeStyles == {"sneaker", "sandal", "boot"}

\* struct Shoe
Shoes == [size : ShoeSizes, style : ShoeStyles]

ShoeVecs == UNION {[1..n -> Shoes] : n \in 0..MaxShoes}

\* the closure |s| s.size == shoe_size
SizeMatches(s, shoe_size) == s.size = shoe_size

\* into_iter().filter(closure).collect(): the elements the closure accepts,
\* pushed in iteration order
RECURSIVE FilterCollect(_, _)
FilterCollect(shoes, shoe_size) ==
    IF shoes = <<>> THEN <<>>
    ELSE (IF SizeMatches(Head(shoes), shoe_size) THEN <<Head(shoes)>> ELSE <<>>)
            \o FilterCollect(Tail(shoes), shoe_size)

\* a filter that keeps every shoe of at least the size
RECURSIVE ShoesAtLeastMySize(_, _)
ShoesAtLeastMySize(shoes, shoe_size) ==
    IF shoes = <<>> THEN <<>>
    ELSE (IF Head(shoes).size >= shoe_size THEN <<Head(shoes)>> ELSE <<>>)
            \o ShoesAtLeastMySize(Tail(shoes), shoe_size)

\* shoes_in_my_size
ShoesInMySize(shoes, shoe_size) == FilterCollect(shoes, shoe_size)

\* some vector of shoes and some size, the function not yet called
ShoeInit ==
    /\ shoesIn \in [shoes : ShoeVecs, shoe_size : ShoeSizes]
    /\ shoesOut = None

InitShoe == ShoeInit /\ Idle("shoe")

\* let in_my_size = shoes_in_my_size(shoes, shoe_size);
CallShoesInMySize ==
    /\ shoesOut = None
    /\ shoesOut' = Some(ShoesInMySize(shoesIn.shoes, shoesIn.shoe_size))
    /\ UNCHANGED shoesIn
    /\ UNCHANGED notShoeVars

NextShoe == CallShoesInMySize

SpecShoe == InitShoe /\ [][NextShoe]_vars

\* C16: the result holds exactly the input shoes of the given size, each
\* once, in their input order, and no other shoe: its k-th element is the
\* input element at the k-th position whose shoe has that size.
C16_ExactlyMySize ==
    shoesOut /= None =>
        LET r == Unwrap(shoesOut)
            shoes == shoesIn.shoes
            M == {i \in 1..Len(shoes) : shoes[i].size = shoesIn.shoe_size}
        IN /\ Len(r) = Cardinality(M)
           /\ \A k \in 1..Len(r) :
                /\ r[k].size = shoesIn.shoe_size
                /\ \E i \in M :
                     /\ Cardinality({j \in M : j <= i}) = k
                     /\ r[k] = shoes[i]

\* the test: sneaker 10, sandal 13, boot 10, filtered by size 10
C16_Witness ==
    /\ shoesIn.shoes = << [size |-> 10, style |-> "sneaker"],
                          [size |-> 13, style |-> "sandal"],
                          [size |-> 10, style |-> "boot"] >>
    /\ shoesIn.shoe_size = 10
    /\ shoesOut = Some(<< [size |-> 10, style |-> "sneaker"],
                          [size |-> 10, style |-> "boot"] >>)

----------------------------------------------------------------------------
(* split_at_mut *)

\* length of the slices tried, besides the vector of the usage example
MaxSliceLen == 3

SliceElems == {1, 2}

\* let mut v = vec![1, 2, 3, 4, 5, 6];
ExampleVec == <<1, 2, 3, 4, 5, 6>>

SliceVecs == UNION {[1..n -> SliceElems] : n \in 0..MaxSliceLen} \cup {ExampleVec}

\* mid: usize, up to one past the longest slice
Mids == 0..(Len(ExampleVec) + 1)

\* slice::from_raw_parts_mut(ptr, len): the len elements from offset ptr of
\* the vector's buffer (offsets count from the start of the buffer)
FromRawPartsMut(ptr, len) == [ptr |-> ptr, len |-> len]

\* the elements a raw-parts slice refers to in buffer v
SliceElements(v, part) == [k \in 1..part.len |-> v[part.ptr + k]]

\* the offsets of the buffer a raw-parts slice covers
SliceOffsets(part) == {part.ptr + k : k \in 1..part.len}

\* split_at_mut asserting mid < len
SplitAtMutStrictAssert(slice, mid) ==
    LET len == Len(slice)
        ptr == 0
    IN IF ~(mid < len)
       THEN [panicked |-> TRUE, a |-> FromRawPartsMut(0, 0), b |-> FromRawPartsMut(0, 0)]
       ELSE [panicked |-> FALSE,
             a |-> FromRawPartsMut(ptr, mid),
             b |-> FromRawPartsMut(ptr + mid, len - mid)]

\* split_at_mut: assert!(mid <= len), then the two raw-parts slices; the
\* parts are meaningful only when the assertion held
SplitAtMut(slice, mid) ==
    LET len == Len(slice)
        ptr == 0
    IN IF ~(mid <= len)
       THEN [panicked |-> TRUE, a |-> FromRawPartsMut(0, 0), b |-> FromRawPartsMut(0, 0)]
       ELSE [panicked |-> FALSE,
             a |-> FromRawPartsMut(ptr, mid),
             b |-> FromRawPartsMut(ptr + mid, len - mid)]

\* some vector and some mid, the function not yet called
SplitInit ==
    /\ splitIn \in [v : SliceVecs, mid : Mids]
    /\ splitOut = None

InitSplit == SplitInit /\ Idle("split")

\* let (a, b) = split_at_mut(&mut v[..], mid);
CallSplitAtMut ==
    /\ splitOut = None
    /\ splitOut' = Some(SplitAtMut(splitIn.v, splitIn.mid))
    /\ UNCHANGED splitIn
    /\ UNCHANGED notSplitVars

NextSplit == CallSplitAtMut

SpecSplit == InitSplit /\ [][NextSplit]_vars

\* C17: for mid <= len the first part is the first mid elements and the
\* second the other len - mid elements, in order, the parts do not overlap and
\* cover the slice; for mid > len the assertion fails and there are no parts.
C17_SplitParts ==
    splitOut /= None =>
        LET v == splitIn.v
            mid == splitIn.mid
            out == Unwrap(splitOut)
        IN IF mid <= Len(v)
           THEN /\ ~out.panicked
                /\ SliceElements(v, out.a) = SubSeq(v, 1, mid)
                /\ SliceElements(v, out.b) = SubSeq(v, mid + 1, Len(v))
                /\ Len(SliceElements(v, out.b)) = Len(v) - mid
                /\ SliceOffsets(out.a) \cap SliceOffsets(out.b) = {}
                /\ SliceOffsets(out.a) \cup SliceOffsets(out.b) = 1..Len(v)
           ELSE out.panicked

\* the usage example: [1, 2, 3, 4, 5, 6] split at 3
C17_Witness ==
    /\ splitIn = [v |-> <<1, 2, 3, 4, 5, 6>>, mid |-> 3]
    /\ splitOut /= None
    /\ SliceElements(splitIn.v, Unwrap(splitOut).a) = <<1, 2, 3>>
    /\ SliceElements(splitIn.v, Unwrap(splitOut).b) = <<4, 5, 6>>

----------------------------------------------------------------------------
(* The programs that spawn a printing thread and join it *)

\* for i in 1..10 of the spawned closure
SpawnedStart == 1
SpawnedEnd == 10
\* for i in 1..5 of main
MainLoopStart == 1
MainLoopEnd == 5

\* the two listings: handle.join() after the loop of main, or before it
JoinPlacements == {"after", "before"}

\* println!("hi number {} from the ... thread!", i)
Line(who, i) == [who |-> who, i |-> i]

\* a join that does not wait for the thread
JoinReturnsAtOnce(pc) == TRUE

\* handle.join() returns once the spawned closure has finished
JoinReturns(pc) == pc = "done"

JoinInit ==
    /\ joinAt \in JoinPlacements
    /\ pcJoinMain = "spawn"
    /\ pcSpawned = "unspawned"
    /\ iJoinMain = MainLoopStart
    /\ iSpawned = SpawnedStart
    /\ output = <<>>

InitJoin == JoinInit /\ Idle("join")

\* let handle = thread::spawn(...); then the join or the loop comes next
JoinSpawn ==
    /\ pcJoinMain = "spawn"
    /\ pcSpawned' = "loop"
    /\ pcJoinMain' = IF joinAt = "before" THEN "join" ELSE "loop"
    /\ UNCHANGED <<joinAt, iJoinMain, iSpawned, output>>
    /\ UNCHANGED notJoinVars

\* one iteration of the spawned loop: print, then sleep
SpawnedPrint ==
    /\ pcSpawned = "loop"
    /\ iSpawned < SpawnedEnd
    /\ output' = Append(output, Line("spawned", iSpawned))
    /\ iSpawned' = iSpawned + 1
    /\ UNCHANGED <<joinAt, pcJoinMain, pcSpawned, iJoinMain>>
    /\ UNCHANGED notJoinVars

\* the spawned closure returns
SpawnedExit ==
    /\ pcSpawned = "loop"
    /\ iSpawned >= SpawnedEnd
    /\ pcSpawned' = "done"
    /\ UNCHANGED <<joinAt, pcJoinMain, iJoinMain, iSpawned, output>>
    /\ UNCHANGED notJoinVars

\* one iteration of the loop of main: print, then sleep
MainLoopPrint ==
    /\ pcJoinMain = "loop"
    /\ iJoinMain < MainLoopEnd
    /\ output' = Append(output, Line("main", iJoinMain))
    /\ iJoinMain' = iJoinMain + 1
    /\ UNCHANGED <<joinAt, pcJoinMain, pcSpawned, iSpawned>>
    /\ UNCHANGED notJoinVars

\* the loop of main ends: the join comes next, or main returns
MainLoopExit ==
    /\ pcJoinMain = "loop"
    /\ iJoinMain >= MainLoopEnd
    /\ pcJoinMain' = IF joinAt = "after" THEN "join" ELSE "done"
    /\ UNCHANGED <<joinAt, pcSpawned, iJoinMain, iSpawned, output>>
    /\ UNCHANGED notJoinVars

\* handle.join().unwrap();
HandleJoin ==
    /\ pcJoinMain = "join"
    /\ JoinReturns(pcSpawned)
    /\ pcJoinMain' = IF joinAt = "before" THEN "loop" ELSE "done"
    /\ UNCHANGED <<joinAt, pcSpawned, iJoinMain, iSpawned, output>>
    /\ UNCHANGED notJoinVars

NextJoin ==
    \/ JoinSpawn
    \/ SpawnedPrint
    \/ SpawnedExit
    \/ MainLoopPrint
    \/ MainLoopExit
    \/ HandleJoin

SpecJoin == InitJoin /\ [][NextJoin]_vars

\* the lines of one thread printed so far
LinesOf(who) == SelectSeq(output, LAMBDA l : l.who = who)

\* C18: with the join before the loop of main, all 9 lines of the spawned
\* thread are printed before the first line of main.
C18_SpawnedLinesFirst ==
    joinAt = "before" =>
        /\ \A i, j \in 1..Len(output) :
              (output[i].who = "main" /\ output[j].who = "spawned") => j < i
        /\ LinesOf("main") /= <<>> =>
              /\ Len(output) >= 9
              /\ \A k \in 1..9 : output[k] = Line("spawned", k)

\* join before the loop: all 13 lines are printed
C18_Witness ==
    /\ joinAt = "before"
    /\ pcJoinMain = "done"
    /\ Len(LinesOf("spawned")) = 9
    /\ Len(LinesOf("main")) = 4

\* C19: with the join after the loop of main, main does not terminate before
\* the spawned thread has completed its 9 iterations.
C19_MainWaitsForSpawned ==
    (joinAt = "after" /\ pcJoinMain = "done") =>
        /\ pcSpawned = "done"
        /\ LinesOf("spawned") = [k \in 1..9 |-> Line("spawned", k)]

\* join after the loop: main is done and the output alternated, a line of
\* main between two lines of the spawned thread and the other way round
C19_Witness ==
    /\ joinAt = "after"
    /\ pcJoinMain = "done"
    /\ \E i, j, k \in 1..Len(output) :
          /\ i < j /\ j < k
          /\ output[i].who = "spawned" /\ output[j].who = "main"
          /\ output[k].who = "spawned"
    /\ \E i, j, k \in 1..Len(output) :
          /\ i < j /\ j < k
          /\ output[i].who = "main" /\ output[j].who = "spawned"
          /\ output[k].who = "main"

----------------------------------------------------------------------------
(* The channel program with two producers *)

Producers == {1, 2}

\* let vals = vec![...]; of the two spawned closures
ProducerVals ==
    [p \in Producers |->
        IF p = 1 THEN <<"hi", "from", "the", "thread">>
        ELSE <<"more", "messages", "for", "you">>]

\* a send that puts the value at the head of the queue
ChanSendFirst(queue, val) == <<val>> \o queue

\* tx.send(val): the value goes to the end of the channel's queue
ChanSend(queue, val) == Append(queue, val)

\* the channel is closed for the receiver: every sender has been dropped,
\* that is every producer closure, owning its sender, has returned
AllSendersDropped(pcs) == \A p \in Producers : pcs[p].state = "done"

MpscInit ==
    /\ chan = <<>>
    /\ pcProducer = [p \in Producers |-> [state |-> "unspawned", next |-> 1]]
    /\ pcReceiver = "spawn"
    /\ received = <<>>

InitMpsc == MpscInit /\ Idle("mpsc")

\* thread::spawn(move || ...): the producers are spawned in program order,
\* then main enters the receive loop
MpscSpawn ==
    /\ pcReceiver = "spawn"
    /\ \E p \in Producers :
          /\ pcProducer[p].state = "unspawned"
          /\ \A q \in Producers : q < p => pcProducer[q].state /= "unspawned"
          /\ pcProducer' = [pcProducer EXCEPT ![p].state = "sending"]
          /\ pcReceiver' = IF \A q \in Producers : q <= p THEN "recv" ELSE "spawn"
    /\ UNCHANGED <<chan, received>>
    /\ UNCHANGED notMpscVars

\* one iteration of for val in vals: send, then sleep
ProducerSend(p) ==
    /\ pcProducer[p].state = "sending"
    /\ pcProducer[p].next <= Len(ProducerVals[p])
    /\ chan' = ChanSend(chan, ProducerVals[p][pcProducer[p].next])
    /\ pcProducer' = [pcProducer EXCEPT ![p].next = @ + 1]
    /\ UNCHANGED <<pcReceiver, received>>
    /\ UNCHANGED notMpscVars

\* the closure returns and drops its sender
ProducerExit(p) ==
    /\ pcProducer[p].state = "sending"
    /\ pcProducer[p].next > Len(ProducerVals[p])
    /\ pcProducer' = [pcProducer EXCEPT ![p].state = "done"]
    /\ UNCHANGED <<chan, pcReceiver, received>>
    /\ UNCHANGED notMpscVars

\* for received in rx: the next message arrives and is printed
Recv ==
    /\ pcReceiver = "recv"
    /\ chan /= <<>>
    /\ received' = Append(received, Head(chan))
    /\ chan' = Tail(chan)
    /\ UNCHANGED <<pcProducer, pcReceiver>>
    /\ UNCHANGED notMpscVars

\* for received in rx: the channel is empty and closed, the loop ends
RecvClosed ==
    /\ pcReceiver = "recv"
    /\ chan = <<>>
    /\ AllSendersDropped(pcProducer)
    /\ pcReceiver' = "done"
    /\ UNCHANGED <<chan, pcProducer, received>>
    /\ UNCHANGED notMpscVars

NextMpsc ==
    \/ MpscSpawn
    \/ \E p \in Producers : ProducerSend(p)
    \/ \E p \in Producers : ProducerExit(p)
    \/ Recv
    \/ RecvClosed

SpecMpsc == InitMpsc /\ [][NextMpsc]_vars

\* the messages received so far that producer p sent
ReceivedFrom(p) ==
    SelectSeq(received, LAMBDA m : \E k \in 1..Len(ProducerVals[p]) : ProducerVals[p][k] = m)

====
